---------------------------- MODULE Spec2Model ----------------------------
(***************************************************************************)
(* A model of the command-intent pipeline of the Kubernetes agent          *)
(* (src/k8s.py) and of the HTTP front end that calls its tools             *)
(* (src/backend/main.py).                                                  *)
(*                                                                         *)
(* Strings are sequences of one-character strings, so that the pattern     *)
(* checks, lower-casing and trimming of the code are computed character by *)
(* character.  Python's None is the one-element sequence <<"None">>.       *)
(***************************************************************************)
EXTENDS Integers, Sequences, FiniteSets, TLC

VARIABLES
    config,       \* K8sConfig of the process: [namespace, max_replicas,
                  \* allowed_images, forbidden_namespaces] and the
                  \* --dry-run option it was started with
    stage,        \* where the request in hand is: Idle, Resolving, ... Reporting
    req,          \* the request in hand
    params,       \* the tool's local variables after its validator calls
    manifest,     \* the manifest generated for a create request
    invocations,  \* the kubectl invocations made for the request in hand
    running,      \* the kubectl invocation that has not returned yet
    tempFiles,    \* the temporary manifest files that exist on disk
    filesBefore,  \* the files that existed when the request in hand arrived
    err,          \* the exception that ended the tool or executor call
    result,       \* the string the tool (or agent.run) returned
    report,       \* what the caller is told
    trace,        \* the stages the request in hand has entered, in order
    warned,       \* the dangerous-keyword warning was printed for the request
    vIn,          \* the function under study and its argument: a validator or
                  \* generator call, a broadcast, or a pair of apply_yaml calls
    vOut          \* what that call returned or raised; for a broadcast and
                  \* for apply_yaml, the frame of the call as it runs

vars == <<config, stage, req, params, manifest, invocations, running,
          tempFiles, filesBefore, err, result, report, trace, warned, vIn, vOut>>

pipeVars == <<config, stage, req, params, manifest, invocations, running,
              tempFiles, filesBefore, err, result, report, trace, warned>>

-----------------------------------------------------------------------------
(* Characters and strings *)

LowerLetters == <<"a","b","c","d","e","f","g","h","i","j","k","l","m",
                  "n","o","p","q","r","s","t","u","v","w","x","y","z">>

UpperLetters == <<"A","B","C","D","E","F","G","H","I","J","K","L","M",
                  "N","O","P","Q","R","S","T","U","V","W","X","Y","Z">>

Range(f) == {f[i] : i \in DOMAIN f}

Lower == Range(LowerLetters)

Upper == Range(UpperLetters)

Digit == {"0","1","2","3","4","5","6","7","8","9"}

Whitespace == {" ", "\n", "\t"}

\* \w of the re module
WordChar == Lower \cup Upper \cup Digit \cup {"_"}

None == <<"None">>

\* Python truthiness of an optional string: None and "" are false
Truthy(s) == s # None /\ s # <<>>

\* str.lower(), one character
LowerChar(c) ==
    IF c \in Upper
    THEN LowerLetters[CHOOSE i \in DOMAIN UpperLetters : UpperLetters[i] = c]
    ELSE c

\* str.lower()
LowerStr(s) == [i \in DOMAIN s |-> LowerChar(s[i])]

\* str.strip(): the whitespace at both ends removed
StripStr(s) ==
    LET keep == {i \in DOMAIN s : s[i] \notin Whitespace}
    IN  IF keep = {} THEN <<>>
        ELSE LET lo == CHOOSE i \in keep : \A j \in keep : i <= j
                 hi == CHOOSE i \in keep : \A j \in keep : j <= i
             IN  SubSeq(s, lo, hi)

\* sub in s
Contains(sub, s) ==
    \E i \in 1..(Len(s) - Len(sub) + 1) : SubSeq(s, i, i + Len(sub) - 1) = sub

-----------------------------------------------------------------------------
(* Regular expressions, as the re module matches them.  EndsOf(r, s, i) is  *)
(* the set of positions at which a match of r that starts at position i of *)
(* s can end (a position is the index of the next character to read).      *)

ReSet(cs) == [t |-> "set", cs |-> cs, rs |-> <<>>]

ReCat(rs) == [t |-> "cat", cs |-> {}, rs |-> rs]

ReOpt(r) == [t |-> "opt", cs |-> {}, rs |-> <<r>>]

ReStar(r) == [t |-> "star", cs |-> {}, rs |-> <<r>>]

RePlus(r) == ReCat(<<r, ReStar(r)>>)

\* ^
ReBol == [t |-> "bol", cs |-> {}, rs |-> <<>>]

\* $ : the end of the string, or just before a newline that ends the string
ReEol == [t |-> "eol", cs |-> {}, rs |-> <<>>]

RECURSIVE EndsOf(_, _, _)
RECURSIVE EndsOfCat(_, _, _, _)
RECURSIVE EndsOfStar(_, _, _)

EndsOf(r, s, i) ==
    CASE r.t = "set"  -> IF i <= Len(s) /\ s[i] \in r.cs THEN {i + 1} ELSE {}
      [] r.t = "bol"  -> IF i = 1 THEN {i} ELSE {}
      [] r.t = "eol"  -> IF i = Len(s) + 1 \/ (i = Len(s) /\ s[i] = "\n")
                         THEN {i} ELSE {}
      [] r.t = "opt"  -> {i} \cup EndsOf(r.rs[1], s, i)
      [] r.t = "star" -> EndsOfStar(r.rs[1], s, {i})
      [] r.t = "cat"  -> EndsOfCat(r.rs, 1, s, {i})

EndsOfCat(rs, k, s, from) ==
    IF k > Len(rs) THEN from
    ELSE EndsOfCat(rs, k + 1, s, UNION {EndsOf(rs[k], s, i) : i \in from})

EndsOfStar(r, s, from) ==
    LET more == from \cup UNION {EndsOf(r, s, i) : i \in from}
    IN  IF more = from THEN from ELSE EndsOfStar(r, s, more)

\* re.match(r, s) is not None
ReMatch(r, s) == EndsOf(r, s, 1) # {}

-----------------------------------------------------------------------------
(* K8sConfig *)

DefaultNamespace == <<"d","e","f","a","u","l","t">>

MaxReplicasDefault == 10

AllowedImages ==
    { <<"n","g","i","n","x">>, <<"h","t","t","p","d">>, <<"r","e","d","i","s">>,
      <<"p","o","s","t","g","r","e","s">>, <<"m","y","s","q","l">>,
      <<"m","o","n","g","o">> }

KubeSystem == <<"k","u","b","e","-","s","y","s","t","e","m">>

KubePublic == <<"k","u","b","e","-","p","u","b","l","i","c">>

KubeNodeLease == <<"k","u","b","e","-","n","o","d","e","-","l","e","a","s","e">>

ForbiddenNamespaces == {KubeSystem, KubePublic, KubeNodeLease}

-----------------------------------------------------------------------------
(* InputValidator.  A validator call returns Ok(value) or raises: Raise(c,  *)
(* m) is the exception of class c with message m.                          *)

Ok(v) == [ok |-> TRUE, val |-> v]

Raise(c, m) == [ok |-> FALSE, class |-> c, msg |-> m, detail |-> ""]

\* an exception whose message ends with the text d
RaiseWith(c, m, d) == [ok |-> FALSE, class |-> c, msg |-> m, detail |-> d]

MaxNameLen == 63

MinPort == 1

MaxPort == 65535

\* r'^[a-z0-9]([-a-z0-9]*[a-z0-9])?$'
NamePattern ==
    ReCat(<<ReBol, ReSet(Lower \cup Digit),
            ReOpt(ReCat(<<ReStar(ReSet({"-"} \cup Lower \cup Digit)),
                          ReSet(Lower \cup Digit)>>)),
            ReEol>>)

\* r'^[a-zA-Z0-9._/-]+(:[a-zA-Z0-9._-]+)?$'
ImagePattern ==
    ReCat(<<ReBol,
            RePlus(ReSet(Lower \cup Upper \cup Digit \cup {".", "_", "/", "-"})),
            ReOpt(ReCat(<<ReSet({":"}),
                          RePlus(ReSet(Lower \cup Upper \cup Digit \cup {".", "_", "-"}))>>)),
            ReEol>>)

validate_name(name) ==
    IF ~Truthy(name)
    THEN Raise("ValidationError", "Name cannot be empty")
    ELSE IF ~ReMatch(NamePattern, name)
    THEN Raise("ValidationError", "Name must be lowercase alphanumeric with hyphens only")
    ELSE IF Len(name) > MaxNameLen
    THEN Raise("ValidationError", "Name must be 63 characters or less")
    ELSE Ok(StripStr(LowerStr(name)))

validate_image(cfg, image) ==
    IF ~Truthy(image)
    THEN Raise("ValidationError", "Image cannot be empty")
    ELSE IF cfg.allowed_images # {}
            /\ ~(\E allowed \in cfg.allowed_images : Contains(allowed, LowerStr(image)))
    THEN Raise("ValidationError", "Image not in allowed list")
    ELSE IF ~ReMatch(ImagePattern, image)
    THEN Raise("ValidationError", "Invalid image format")
    ELSE Ok(StripStr(image))

\* validate_replicas without its upper bound
validate_replicas_unbounded(cfg, replicas) ==
    IF replicas < 0
    THEN Raise("ValidationError", "Replicas must be a non-negative integer")
    ELSE Ok(replicas)

validate_replicas(cfg, replicas) ==
    IF replicas < 0
    THEN Raise("ValidationError", "Replicas must be a non-negative integer")
    ELSE IF replicas > cfg.max_replicas
    THEN Raise("ValidationError", "Replicas cannot exceed max_replicas")
    ELSE Ok(replicas)

\* validate_namespace without the substitution of the default
validate_namespace_as_given(cfg, namespace) ==
    IF namespace \in cfg.forbidden_namespaces
    THEN Raise("SecurityError", "Namespace is forbidden")
    ELSE validate_name(namespace)

\* validate_namespace with the name check ahead of the forbidden check
validate_namespace_name_first(cfg, namespace) ==
    LET ns == IF ~Truthy(namespace) THEN cfg.namespace ELSE namespace
        checked == validate_name(ns)
    IN  IF ~checked.ok
        THEN checked
        ELSE IF ns \in cfg.forbidden_namespaces
        THEN Raise("SecurityError", "Namespace is forbidden")
        ELSE checked

validate_namespace(cfg, namespace) ==
    LET ns == IF ~Truthy(namespace) THEN cfg.namespace ELSE namespace
    IN  IF ns \in cfg.forbidden_namespaces
        THEN Raise("SecurityError", "Namespace is forbidden")
        ELSE validate_name(ns)

validate_port(port) ==
    IF port < MinPort \/ port > MaxPort
    THEN Raise("ValidationError", "Port must be between 1 and 65535")
    ELSE Ok(port)

-----------------------------------------------------------------------------
(* re.search with one group, as the _process_*_command methods use it *)

UpperChar(c) ==
    IF c \in Lower
    THEN UpperLetters[CHOOSE i \in DOMAIN LowerLetters : LowerLetters[i] = c]
    ELSE c

\* a literal text under re.IGNORECASE
ReLit(text) == ReCat([i \in DOMAIN text |-> ReSet({text[i], UpperChar(text[i])})])

ReSpaces == RePlus(ReSet(Whitespace))

\* ['\"]?
ReQuoteOpt == ReOpt(ReSet({"'", "\""}))

ReWord == RePlus(ReSet(WordChar))

ReDigits == RePlus(ReSet(Digit))

\* (?::\w+)?
ReTagOpt == ReOpt(ReCat(<<ReSet({":"}), ReWord>>))

ReEmpty == ReCat(<<>>)

SetMin(S) == CHOOSE x \in S : \A y \in S : x <= y

SetMax(S) == CHOOSE x \in S : \A y \in S : y <= x

\* re.search(pre (grp) post, s): the leftmost match, every quantifier greedy.
\* NoMatch when there is none, else the text of the group.
NoMatch == <<"NoMatch">>

SearchGroup(pre, grp, post, s) ==
    LET GroupEnds(p) == {g \in EndsOf(grp, s, p) : EndsOf(post, s, g) # {}}
        GroupStarts(i) == {p \in EndsOf(pre, s, i) : GroupEnds(p) # {}}
        starts == {i \in 1..(Len(s) + 1) : GroupStarts(i) # {}}
    IN  IF starts = {} THEN NoMatch
        ELSE LET p == SetMax(GroupStarts(SetMin(starts)))
             IN  SubSeq(s, p, SetMax(GroupEnds(p)) - 1)

DigitValue(c) == CHOOSE n \in 0..9 : <<"0","1","2","3","4","5","6","7","8","9">>[n + 1] = c

\* int(text) of a text of digits
RECURSIVE ParseInt(_)
ParseInt(ds) ==
    IF ds = <<>> THEN 0
    ELSE 10 * ParseInt(SubSeq(ds, 1, Len(ds) - 1)) + DigitValue(ds[Len(ds)])

S_webapp == <<"w","e","b","a","p","p">>

S_nginx == <<"n","g","i","n","x">>

S_default == <<"d","e","f","a","u","l","t">>

S_pods == <<"p","o","d","s">>

S_deployments == <<"d","e","p","l","o","y","m","e","n","t","s">>

S_services == <<"s","e","r","v","i","c","e","s">>

S_create == <<"c","r","e","a","t","e">>

S_deployment == <<"d","e","p","l","o","y","m","e","n","t">>

S_service == <<"s","e","r","v","i","c","e">>

S_list == <<"l","i","s","t">>

S_scale == <<"s","c","a","l","e">>

S_log == <<"l","o","g">>

S_image == <<"i","m","a","g","e">>

S_replica == <<"r","e","p","l","i","c","a">>

\* ExtractReplicas without the default of one replica
ExtractReplicasNoDefault(text) ==
    LET m == SearchGroup(ReEmpty, ReDigits,
                         ReCat(<<ReSpaces, ReLit(S_replica), ReOpt(ReLit(<<"s">>))>>), text)
    IN  ParseInt(IF m = NoMatch THEN <<>> ELSE m)

\* r"(\d+)\s+replicas?" -> int, default 1
ExtractReplicas(text) ==
    LET m == SearchGroup(ReEmpty, ReDigits,
                         ReCat(<<ReSpaces, ReLit(S_replica), ReOpt(ReLit(<<"s">>))>>), text)
    IN  IF m = NoMatch THEN 1 ELSE ParseInt(m)

\* K8sAgent._process_deployment_command: the tool input it builds
DeploymentToolInput(text) ==
    LET name_match == SearchGroup(
            ReCat(<<ReLit(<<"n","a","m","e">>), ReOpt(ReLit(<<"d">>)), ReSpaces, ReQuoteOpt>>),
            ReWord, ReQuoteOpt, text)
        image_before == SearchGroup(ReEmpty, ReWord,
            ReCat(<<ReTagOpt, ReSpaces, ReLit(S_image)>>), text)
        image_after == SearchGroup(ReCat(<<ReLit(S_image), ReSpaces>>), ReWord, ReTagOpt, text)
        image_match == IF image_before # NoMatch THEN image_before ELSE image_after
    IN  [name     |-> IF name_match # NoMatch THEN name_match ELSE S_webapp,
         image    |-> IF image_match # NoMatch THEN image_match ELSE S_nginx,
         replicas |-> ExtractReplicas(text)]

\* K8sAgent._process_service_command
ServiceToolInput(text) ==
    LET name_match == SearchGroup(ReCat(<<ReLit(<<"f","o","r">>), ReSpaces, ReQuoteOpt>>),
                                  ReWord, ReQuoteOpt, text)
        port_match == SearchGroup(ReCat(<<ReLit(<<"p","o","r","t">>), ReSpaces>>),
                                  ReDigits, ReEmpty, text)
    IN  [name |-> IF name_match # NoMatch THEN name_match ELSE S_webapp,
         port |-> IF port_match # NoMatch THEN ParseInt(port_match) ELSE 80]

\* K8sAgent._process_list_command
ListToolInput(text) ==
    [resource_type |->
        IF Contains(S_deployment, LowerStr(text)) THEN S_deployments
        ELSE IF Contains(S_service, LowerStr(text)) THEN S_services
        ELSE S_pods]

\* K8sAgent._process_scale_command
ScaleToolInput(text) ==
    LET name_match == SearchGroup(ReQuoteOpt, ReWord,
            ReCat(<<ReQuoteOpt, ReSpaces, ReLit(S_deployment)>>), text)
    IN  [name     |-> IF name_match # NoMatch THEN name_match ELSE S_webapp,
         replicas |-> ExtractReplicas(text)]

\* K8sAgent._process_logs_command
LogsToolInput(text) ==
    LET pod_match == SearchGroup(ReCat(<<ReLit(<<"p","o","d">>), ReSpaces, ReQuoteOpt>>),
                                 ReWord, ReQuoteOpt, text)
    IN  [pod_name |-> IF pod_match # NoMatch THEN pod_match ELSE S_webapp]

DangerousKeywords ==
    { <<"d","e","l","e","t","e">>, <<"r","e","m","o","v","e">>,
      <<"d","e","s","t","r","o","y">>, <<"k","i","l","l">> }

HelpKeywords == { <<"h","e","l","p">>, <<"h">>, <<"?">> }

StatusKeywords == { <<"s","t","a","t","u","s">>, <<"i","n","f","o">> }

\* Route with a rule that sends "delete" to K8sOperations.delete_resource
RouteWithDelete(text) ==
    LET low == LowerStr(text)
    IN  IF StripStr(text) = <<>> THEN "empty"
        ELSE IF \E k \in HelpKeywords : Contains(k, low) THEN "help"
        ELSE IF \E k \in StatusKeywords : Contains(k, low) THEN "status"
        ELSE IF Contains(<<"d","e","l","e","t","e">>, low) THEN "delete_resource"
        ELSE IF Contains(S_create, low) /\ Contains(S_deployment, low)
             THEN "create_deployment"
        ELSE IF Contains(S_create, low) /\ Contains(S_service, low)
             THEN "create_service"
        ELSE IF Contains(S_list, low) THEN "list_resources"
        ELSE IF Contains(S_scale, low) THEN "scale_deployment"
        ELSE IF Contains(S_log, low) THEN "get_logs"
        ELSE "clarify"

\* Route with the help and status keywords looked for after the kinds
RouteKindFirst(text) ==
    LET low == LowerStr(text)
    IN  IF StripStr(text) = <<>> THEN "empty"
        ELSE IF Contains(S_create, low) /\ Contains(S_deployment, low)
             THEN "create_deployment"
        ELSE IF Contains(S_create, low) /\ Contains(S_service, low)
             THEN "create_service"
        ELSE IF Contains(S_list, low) THEN "list_resources"
        ELSE IF Contains(S_scale, low) THEN "scale_deployment"
        ELSE IF Contains(S_log, low) THEN "get_logs"
        ELSE IF \E k \in HelpKeywords : Contains(k, low) THEN "help"
        ELSE IF \E k \in StatusKeywords : Contains(k, low) THEN "status"
        ELSE "clarify"

\* Route with the scale rule ahead of the list rule
RouteScaleFirst(text) ==
    LET low == LowerStr(text)
    IN  IF StripStr(text) = <<>> THEN "empty"
        ELSE IF \E k \in HelpKeywords : Contains(k, low) THEN "help"
        ELSE IF \E k \in StatusKeywords : Contains(k, low) THEN "status"
        ELSE IF Contains(S_create, low) /\ Contains(S_deployment, low)
             THEN "create_deployment"
        ELSE IF Contains(S_create, low) /\ Contains(S_service, low)
             THEN "create_service"
        ELSE IF Contains(S_scale, low) THEN "scale_deployment"
        ELSE IF Contains(S_list, low) THEN "list_resources"
        ELSE IF Contains(S_log, low) THEN "get_logs"
        ELSE "clarify"

\* K8sAgent.run: the branch the text takes
Route(text) ==
    LET low == LowerStr(text)
    IN  IF StripStr(text) = <<>> THEN "empty"
        ELSE IF \E k \in HelpKeywords : Contains(k, low) THEN "help"
        ELSE IF \E k \in StatusKeywords : Contains(k, low) THEN "status"
        ELSE IF Contains(S_create, low) /\ Contains(S_deployment, low)
             THEN "create_deployment"
        ELSE IF Contains(S_create, low) /\ Contains(S_service, low)
             THEN "create_service"
        ELSE IF Contains(S_list, low) THEN "list_resources"
        ELSE IF Contains(S_scale, low) THEN "scale_deployment"
        ELSE IF Contains(S_log, low) THEN "get_logs"
        ELSE "clarify"

\* the dangerous-keyword check of K8sAgent.run
IsDangerous(text) == \E k \in DangerousKeywords : Contains(k, LowerStr(text))

\* the tool input the routed _process_*_command builds from the text
ToolInputOf(kind, text) ==
    CASE kind = "create_deployment" -> DeploymentToolInput(text)
      [] kind = "create_service"    -> ServiceToolInput(text)
      [] kind = "list_resources"    -> ListToolInput(text)
      [] kind = "scale_deployment"  -> ScaleToolInput(text)
      [] kind = "get_logs"          -> LogsToolInput(text)

-----------------------------------------------------------------------------
(* Manifest generation.  A manifest is kept as the mapping that yaml.dump   *)
(* serialises; cpu is in millicores and memory in Mi.                      *)

RequestCpu == 100

RequestMemory == 128

DefaultCpuLimit == 500

DefaultMemoryLimit == 512

DefaultPort == 80

DefaultLogLines == 100

NoManifest == [kind |-> "none"]

generate_deployment_yaml(name, image, replicas, namespace, port, cpu_limit, memory_limit) ==
    [apiVersion |-> "apps/v1",
     kind       |-> "Deployment",
     metadata   |-> [name |-> name, namespace |-> namespace, labels |-> [app |-> name]],
     spec       |-> [replicas  |-> replicas,
                     selector  |-> [app |-> name],
                     container |-> [name     |-> name,
                                    image    |-> image,
                                    port     |-> port,
                                    limits   |-> [cpu |-> cpu_limit, memory |-> memory_limit],
                                    requests |-> [cpu |-> RequestCpu, memory |-> RequestMemory]]]]

generate_service_yaml(name, port, target_port, namespace, service_type) ==
    [apiVersion |-> "v1",
     kind       |-> "Service",
     metadata   |-> [name |-> name \o <<"-","s","e","r","v","i","c","e">>,
                     namespace |-> namespace, labels |-> [app |-> name]],
     spec       |-> [selector |-> [app |-> name],
                     port |-> port, targetPort |-> target_port,
                     type |-> service_type]]

\* str.encode(): the UTF-8 bytes of a text given as its code points
RECURSIVE Utf8Encode(_)
Utf8Encode(cps) ==
    IF cps = <<>> THEN <<>>
    ELSE LET cp == Head(cps)
             bytes == IF cp < 128 THEN <<cp>>
                      ELSE IF cp < 2048 THEN <<192 + (cp \div 64), 128 + (cp % 64)>>
                      ELSE IF cp < 65536
                      THEN <<224 + (cp \div 4096), 128 + ((cp \div 64) % 64), 128 + (cp % 64)>>
                      ELSE <<240 + (cp \div 262144), 128 + ((cp \div 4096) % 64),
                             128 + ((cp \div 64) % 64), 128 + (cp % 64)>>
         IN  bytes \o Utf8Encode(Tail(cps))

\* the alphabet of base64: the character of each 6-bit value, from 0
B64Alphabet ==
    UpperLetters \o LowerLetters
        \o <<"0","1","2","3","4","5","6","7","8","9","+","/">>

\* b64encode that leaves out a last group of fewer than three bytes
RECURSIVE b64encode_whole_groups(_)
b64encode_whole_groups(bytes) ==
    IF Len(bytes) < 3 THEN <<>>
    ELSE <<B64Alphabet[(bytes[1] \div 4) + 1],
           B64Alphabet[(bytes[1] % 4) * 16 + (bytes[2] \div 16) + 1],
           B64Alphabet[(bytes[2] % 16) * 4 + (bytes[3] \div 64) + 1],
           B64Alphabet[(bytes[3] % 64) + 1]>>
         \o b64encode_whole_groups(SubSeq(bytes, 4, Len(bytes)))

\* base64.b64encode(...).decode(): four characters for every three bytes,
\* the last group padded with "="
RECURSIVE b64encode(_)
b64encode(bytes) ==
    IF bytes = <<>> THEN <<>>
    ELSE IF Len(bytes) = 1
    THEN <<B64Alphabet[(bytes[1] \div 4) + 1], B64Alphabet[(bytes[1] % 4) * 16 + 1], "=", "=">>
    ELSE IF Len(bytes) = 2
    THEN <<B64Alphabet[(bytes[1] \div 4) + 1],
           B64Alphabet[(bytes[1] % 4) * 16 + (bytes[2] \div 16) + 1],
           B64Alphabet[(bytes[2] % 16) * 4 + 1], "=">>
    ELSE <<B64Alphabet[(bytes[1] \div 4) + 1],
           B64Alphabet[(bytes[1] % 4) * 16 + (bytes[2] \div 16) + 1],
           B64Alphabet[(bytes[2] % 16) * 4 + (bytes[3] \div 64) + 1],
           B64Alphabet[(bytes[3] % 64) + 1]>>
         \o b64encode(SubSeq(bytes, 4, Len(bytes)))

\* the mapping generate_secret_yaml serialises; data maps each key to the
\* code points of its value
generate_secret_yaml(name, data, namespace) ==
    [apiVersion |-> "v1",
     kind       |-> "Secret",
     metadata   |-> [name |-> name \o <<"-","s","e","c","r","e","t">>,
                     namespace |-> namespace, labels |-> [app |-> name]],
     type       |-> "Opaque",
     data       |-> [k \in DOMAIN data |-> b64encode(Utf8Encode(data[k]))]]

-----------------------------------------------------------------------------
(* What a kubectl process can do once it is started *)

StdoutApplied == "deployment.apps/api configured"

StdoutNoItems == "{\"items\": []}"

StdoutOneItem == "{\"items\": [{\"metadata\": {\"name\": \"api\"}, \"status\": {\"phase\": \"Running\"}}]}"

StderrNotFound == "Error from server (NotFound): the server could not find the requested resource"

Exited(code, out, errText) == [how |-> "exited", code |-> code, stdout |-> out, stderr |-> errText]

Outcomes ==
    { Exited(0, StdoutApplied, ""), Exited(0, StdoutNoItems, ""), Exited(0, StdoutOneItem, ""),
      Exited(1, "", StderrNotFound),
      [how |-> "timeout",  code |-> -1, stdout |-> "", stderr |-> ""],
      [how |-> "notfound", code |-> -1, stdout |-> "", stderr |-> ""],
      [how |-> "oserror",  code |-> -1, stdout |-> "", stderr |-> "Permission denied"] }

\* json.loads of the output, then data.get("items", []): the number of items
JsonLoads(text) ==
    CASE text = StdoutNoItems -> Ok(0)
      [] text = StdoutOneItem -> Ok(1)
      [] OTHER -> Raise("JSONDecodeError", "Expecting value: line 1 column 1 (char 0)")

-----------------------------------------------------------------------------
(* K8sOperations *)

NoCmd == [verb |-> "none"]

NoErr == [ok |-> TRUE]

\* the -n argument: only a true namespace is passed
NsArg(namespace) == IF Truthy(namespace) THEN namespace ELSE None

\* K8sOperations._run_kubectl, given what the process did
TimeoutMessage == "kubectl command timed out after 30 seconds"

NotFoundMessage == "kubectl not found. Please install kubectl and ensure it's in PATH"

run_kubectl(o) ==
    CASE o.how = "exited"   -> Ok([success |-> o.code = 0, stdout |-> o.stdout,
                                   stderr |-> o.stderr, returncode |-> o.code])
      [] o.how = "timeout"  -> Raise("ResourceError", TimeoutMessage)
      [] o.how = "notfound" -> Raise("ResourceError", NotFoundMessage)
      [] OTHER              -> RaiseWith("ResourceError", "Failed to run kubectl command: ", o.stderr)

FailedDetailDropped(cmd, res) == ""

\* the text an operation appends to its message for a result that is not a
\* success: result['stderr']
FailedDetail(cmd, res) == res.stderr

\* the fixed start of that message (the resource named in it is left out)
FailedMessage(cmd) ==
    CASE cmd.verb = "apply" -> "Failed to apply YAML: "
      [] cmd.verb = "get"   -> "Failed to list: "
      [] cmd.verb = "scale" -> "Failed to scale deployment: "
      [] cmd.verb = "logs"  -> "Failed to get logs: "

\* apply_yaml, list_resources, get_logs, scale_deployment after _run_kubectl:
\* what the operation returns or raises
OperationReturn(cmd, o) ==
    LET r == run_kubectl(o)
    IN  IF ~r.ok THEN r
        ELSE IF ~r.val.success
        THEN RaiseWith("ResourceError", FailedMessage(cmd), FailedDetail(cmd, r.val))
        ELSE IF cmd.verb = "get" THEN JsonLoads(r.val.stdout)
        ELSE IF cmd.verb = "logs" THEN Ok(r.val.stdout)
        ELSE r

\* apply_yaml reaches os.unlink only when _run_kubectl returned
ApplyUnlinks(o) == run_kubectl(o).ok

-----------------------------------------------------------------------------
(* The tools' _run methods *)

Get(data, key, default) == IF key \in DOMAIN data THEN data[key] ELSE default

NoParams == [none |-> TRUE]

\* the first exception a sequence of validator calls raises, if any
FirstRaised(calls) ==
    IF \A i \in DOMAIN calls : calls[i].ok THEN NoErr
    ELSE calls[SetMin({i \in DOMAIN calls : ~calls[i].ok})]

\* the validator calls of a tool's _run, in the order it makes them
ToolChecks(kind, cfg, data) ==
    CASE kind = "create_deployment" ->
            <<validate_name(Get(data, "name", None)),
              validate_image(cfg, Get(data, "image", None)),
              validate_replicas(cfg, Get(data, "replicas", 1)),
              validate_namespace(cfg, Get(data, "namespace", S_default)),
              validate_port(Get(data, "port", DefaultPort))>>
      [] kind = "create_service" ->
            <<validate_name(Get(data, "name", None)),
              validate_port(Get(data, "port", DefaultPort)),
              validate_port(Get(data, "target_port", DefaultPort)),
              validate_namespace(cfg, Get(data, "namespace", S_default))>>
      [] kind = "scale_deployment" ->
            <<validate_name(Get(data, "name", None)),
              validate_replicas(cfg, data.replicas)>>
      [] kind = "list_resources" -> <<>>
      [] kind = "get_logs" ->
            <<IF Truthy(Get(data, "pod_name", None)) THEN Ok(data.pod_name)
              ELSE Raise("ValidationError", "pod_name is required")>>

\* the local variables of _run once every validator call has returned, c
\* being what the calls returned
ToolParams(kind, data, c) ==
    CASE kind = "create_deployment" ->
            [name |-> c[1].val, image |-> c[2].val, replicas |-> c[3].val,
             namespace |-> c[4].val, port |-> c[5].val,
             cpu_limit |-> Get(data, "cpu_limit", DefaultCpuLimit),
             memory_limit |-> Get(data, "memory_limit", DefaultMemoryLimit)]
      [] kind = "create_service" ->
            [name |-> c[1].val, port |-> c[2].val, target_port |-> c[3].val,
             namespace |-> c[4].val,
             service_type |-> Get(data, "service_type", "ClusterIP")]
      [] kind = "scale_deployment" ->
            [name |-> c[1].val, replicas |-> c[2].val,
             namespace |-> Get(data, "namespace", None)]
      [] kind = "list_resources" ->
            [resource_type |-> Get(data, "resource_type", S_pods),
             namespace |-> Get(data, "namespace", None)]
      [] kind = "get_logs" ->
            [pod_name |-> c[1].val,
             namespace |-> Get(data, "namespace", None),
             lines |-> Get(data, "lines", DefaultLogLines)]

CreateKinds == {"create_deployment", "create_service"}

ToolKinds == {"create_deployment", "create_service", "list_resources",
              "scale_deployment", "get_logs"}

\* the manifest a create tool generates from its validated locals
ToolManifest(kind, p) ==
    IF kind = "create_deployment"
    THEN generate_deployment_yaml(p.name, p.image, p.replicas, p.namespace, p.port,
                                  p.cpu_limit, p.memory_limit)
    ELSE generate_service_yaml(p.name, p.port, p.target_port, p.namespace, p.service_type)

\* the kubectl command line of the operation a tool calls
ToolCommand(kind, p) ==
    CASE kind = "list_resources" ->
            [verb |-> "get", rtype |-> p.resource_type, ns |-> NsArg(p.namespace)]
      [] kind = "scale_deployment" ->
            [verb |-> "scale", name |-> p.name, replicas |-> p.replicas,
             ns |-> NsArg(p.namespace)]
      [] kind = "get_logs" ->
            [verb |-> "logs", pod |-> p.pod_name, lines |-> p.lines,
             ns |-> NsArg(p.namespace)]

\* the string a tool's _run returns: a fixed prefix, then the output or str(e)
NoResult == [prefix |-> "", msg |-> "", detail |-> ""]

ErrorPrefix(kind, e) ==
    IF kind = "create_deployment"
    THEN CASE e.class = "ValidationError" -> "Validation error: "
           [] e.class = "SecurityError"   -> "Security error: "
           [] e.class = "ResourceError"   -> "Resource error: "
           [] OTHER                       -> "Error: "
    ELSE "Error: "

ToolError(kind, e) == [prefix |-> ErrorPrefix(kind, e), msg |-> e.msg, detail |-> e.detail]

ToolSuccess(kind, ret, o) ==
    CASE kind = "create_deployment" -> [prefix |-> "Deployment created: ", msg |-> "", detail |-> o.stdout]
      [] kind = "create_service"    -> [prefix |-> "Service created: ", msg |-> "", detail |-> o.stdout]
      [] kind = "scale_deployment"  -> [prefix |-> "Deployment scaled: ", msg |-> "", detail |-> o.stdout]
      [] kind = "list_resources"    ->
            [prefix |-> IF ret.val > 0 THEN "Found " ELSE "No ", msg |-> "", detail |-> ""]
      [] kind = "get_logs"          ->
            [prefix |-> IF ret.val # "" THEN "Retrieved log lines" ELSE "No logs found",
             msg |-> "", detail |-> ""]

-----------------------------------------------------------------------------
(* The texts a user is taken to type *)

\* "Create a deployment named api with nginx image and 3 replicas": the first
\* example of show_help, with the name api
DeploymentSentence ==
    <<"C","r","e","a","t","e"," ","a"," ","d","e","p","l","o","y","m","e","n","t"," ","n","a","m","e","d"," ","a","p","i"," ","w","i","t","h"," ","n","g","i","n","x"," ","i","m","a","g","e"," ","a","n","d"," ","3"," ","r","e","p","l","i","c","a","s">>

SampleTexts ==
    {
     \* "create deployment named api nginx image 3 replicas"
     <<"c","r","e","a","t","e"," ","d","e","p","l","o","y","m","e","n","t"," ","n","a","m","e","d"," ","a","p","i"," ","n","g","i","n","x"," ","i","m","a","g","e"," ","3"," ","r","e","p","l","i","c","a","s">>,
     DeploymentSentence,
     \* "create deployment named Api evil image 2 replicas"
     <<"c","r","e","a","t","e"," ","d","e","p","l","o","y","m","e","n","t"," ","n","a","m","e","d"," ","A","p","i"," ","e","v","i","l"," ","i","m","a","g","e"," ","2"," ","r","e","p","l","i","c","a","s">>,
     \* "create deployment named api redis image 11 replicas"
     <<"c","r","e","a","t","e"," ","d","e","p","l","o","y","m","e","n","t"," ","n","a","m","e","d"," ","a","p","i"," ","r","e","d","i","s"," ","i","m","a","g","e"," ","1","1"," ","r","e","p","l","i","c","a","s">>,
     \* "create service for api on port 80"
     <<"c","r","e","a","t","e"," ","s","e","r","v","i","c","e"," ","f","o","r"," ","a","p","i"," ","o","n"," ","p","o","r","t"," ","8","0">>,
     \* "create service for api on port 0"
     <<"c","r","e","a","t","e"," ","s","e","r","v","i","c","e"," ","f","o","r"," ","a","p","i"," ","o","n"," ","p","o","r","t"," ","0">>,
     \* "list pods"
     <<"l","i","s","t"," ","p","o","d","s">>,
     \* "list deployments"
     <<"l","i","s","t"," ","d","e","p","l","o","y","m","e","n","t","s">>,
     \* "scale api deployment to 3 replicas"
     <<"s","c","a","l","e"," ","a","p","i"," ","d","e","p","l","o","y","m","e","n","t"," ","t","o"," ","3"," ","r","e","p","l","i","c","a","s">>,
     \* "scale api deployment to 50 replicas"
     <<"s","c","a","l","e"," ","a","p","i"," ","d","e","p","l","o","y","m","e","n","t"," ","t","o"," ","5","0"," ","r","e","p","l","i","c","a","s">>,
     \* "logs of pod api"
     <<"l","o","g","s"," ","o","f"," ","p","o","d"," ","a","p","i">>,
     \* "cluster status"
     <<"c","l","u","s","t","e","r"," ","s","t","a","t","u","s">>,
     \* "help"
     <<"h","e","l","p">>,
     \* "delete pod api"
     <<"d","e","l","e","t","e"," ","p","o","d"," ","a","p","i">>,
     \* "create deployment and service"
     <<"c","r","e","a","t","e"," ","d","e","p","l","o","y","m","e","n","t"," ","a","n","d"," ","s","e","r","v","i","c","e">>,
     \* "create service"
     <<"c","r","e","a","t","e"," ","s","e","r","v","i","c","e">>,
     \* "scale it"
     <<"s","c","a","l","e"," ","i","t">>,
     \* "logs"
     <<"l","o","g","s">>,
     \* "list logs of scale"
     <<"l","i","s","t"," ","l","o","g","s"," ","o","f"," ","s","c","a","l","e">>,
     \* "kill and list pods"
     <<"k","i","l","l"," ","a","n","d"," ","l","i","s","t"," ","p","o","d","s">>,
     \* "list deployment status"
     <<"l","i","s","t"," ","d","e","p","l","o","y","m","e","n","t"," ","s","t","a","t","u","s">>,
     \* "  "
     <<" "," ">>
    }

-----------------------------------------------------------------------------
(* The requests of the model *)

S_api == <<"a","p","i">>

S_Api == <<"A","p","i">>

S_evil == <<"e","v","i","l">>

S_secrets == <<"s","e","c","r","e","t","s">>

HttpNames == {S_api, S_Api, S_api \o <<"\n">>}

HttpImages == {S_nginx, S_evil}

HttpReplicas == {3, 11}

HttpPorts == {80, 0}

HttpNamespaces == {S_default, <<>>, KubeSystem, KubeSystem \o <<"\n">>}

HttpOptionalNamespaces == {None, S_default, KubeSystem}

\* the bodies the endpoints of backend/main.py turn into tool inputs
HttpRequests ==
    {[kind |-> "create_deployment",
      data |-> [name |-> n, image |-> i, replicas |-> r, namespace |-> ns, port |-> p,
                cpu_limit |-> DefaultCpuLimit, memory_limit |-> DefaultMemoryLimit]] :
        n \in HttpNames, i \in HttpImages, r \in HttpReplicas,
        ns \in HttpNamespaces, p \in HttpPorts}
    \cup
    {[kind |-> "create_deployment",
      data |-> [name |-> S_api, image |-> S_nginx, replicas |-> 3, namespace |-> S_default,
                port |-> DefaultPort, cpu_limit |-> c, memory_limit |-> m]] :
        c \in {DefaultCpuLimit, RequestCpu, 50}, m \in {DefaultMemoryLimit, RequestMemory, 64}}
    \cup
    {[kind |-> "create_service",
      data |-> [name |-> n, port |-> p, target_port |-> DefaultPort, namespace |-> ns,
                service_type |-> "ClusterIP"]] :
        n \in HttpNames, ns \in HttpNamespaces, p \in HttpPorts}
    \cup
    {[kind |-> "list_resources", data |-> [resource_type |-> t, namespace |-> ns]] :
        t \in {S_pods, S_secrets}, ns \in HttpOptionalNamespaces}
    \cup
    {[kind |-> "scale_deployment", data |-> [name |-> n, replicas |-> r, namespace |-> ns]] :
        n \in HttpNames, r \in HttpReplicas, ns \in HttpOptionalNamespaces}
    \cup
    {[kind |-> "get_logs", data |-> [pod_name |-> n, namespace |-> ns, lines |-> DefaultLogLines]] :
        n \in {S_api}, ns \in HttpOptionalNamespaces}

\* K8S_NAMESPACE and --namespace set the default namespace of the process;
\* dry_run is the --dry-run option main() parses (it is no field of K8sConfig,
\* the model keeps the options of the process in one record)
Configs ==
    {[namespace |-> ns, max_replicas |-> MaxReplicasDefault,
      allowed_images |-> AllowedImages, forbidden_namespaces |-> ForbiddenNamespaces,
      dry_run |-> d] :
        ns \in {DefaultNamespace, KubeSystem}, d \in BOOLEAN}

\* how many temporary files the disk of the model holds
MaxTempFiles == 2

-----------------------------------------------------------------------------
(* The pipeline, one request at a time *)

NoReq == [entry |-> "none", kind |-> "none", text |-> <<>>, data |-> NoParams]

NoReport == [succeeded |-> FALSE, message |-> "none"]

PipeIdle ==
    /\ stage = "Idle"
    /\ req = NoReq
    /\ params = NoParams
    /\ manifest = NoManifest
    /\ invocations = <<>>
    /\ running = NoCmd
    /\ tempFiles = {}
    /\ filesBefore = {}
    /\ err = NoErr
    /\ result = NoResult
    /\ report = NoReport
    /\ trace = <<>>
    /\ warned = FALSE

PipeInit ==
    /\ config \in Configs
    /\ PipeIdle

\* the commands the interactive loop of main() handles itself
MainLoopCommand(text) ==
    LET low == LowerStr(text)
    IN  IF low \in HelpKeywords THEN "loop_help"
        ELSE IF low \in StatusKeywords THEN "loop_status"
        ELSE "run"

\* main() reads a line, /api/chat receives a message: the text goes to
\* K8sAgent.run (the loop skips an empty line)
ReceiveText(entry, text) ==
    /\ stage = "Idle"
    /\ Cardinality(tempFiles) < MaxTempFiles
    /\ entry = "cli" => StripStr(text) # <<>>
    /\ req' = [entry |-> entry, kind |-> "text", text |-> text, data |-> NoParams]
    /\ stage' = "Resolving"
    /\ trace' = <<"Resolving">>
    /\ filesBefore' = tempFiles
    /\ UNCHANGED <<config, params, manifest, invocations, running, tempFiles,
                   err, result, report, warned, vIn, vOut>>

\* an endpoint of backend/main.py builds the tool input and calls the tool
ReceiveHttp(r) ==
    /\ stage = "Idle"
    /\ Cardinality(tempFiles) < MaxTempFiles
    /\ req' = [entry |-> "http", kind |-> r.kind, text |-> <<>>, data |-> r.data]
    /\ stage' = "Validating"
    /\ trace' = <<"Validating">>
    /\ filesBefore' = tempFiles
    /\ UNCHANGED <<config, params, manifest, invocations, running, tempFiles,
                   err, result, report, warned, vIn, vOut>>

\* Resolution with the warning made a veto: a dangerous text is not routed
ResolutionWithVeto(text) ==
    IF Route(text) # "empty" /\ IsDangerous(text)
    THEN [route |-> "clarify", warning |-> TRUE, tool_input |-> NoParams]
    ELSE [route      |-> Route(text),
          warning    |-> FALSE,
          tool_input |-> IF Route(text) \in ToolKinds
                         THEN ToolInputOf(Route(text), text)
                         ELSE NoParams]

\* K8sAgent.run on a text: the branch taken, whether the warning is printed
\* on the way, and the tool input the branch builds
Resolution(text) ==
    [route      |-> Route(text),
     warning    |-> Route(text) # "empty" /\ IsDangerous(text),
     tool_input |-> IF Route(text) \in ToolKinds THEN ToolInputOf(Route(text), text)
                    ELSE NoParams]

\* the same for every text of the model, evaluated once
Resolutions == [text \in SampleTexts |-> Resolution(text)]

\* main() and then K8sAgent.run on the text of r: the loop handles its own
\* commands before K8sAgent.run sees the text, so no warning is printed for
\* them
Resolved(r) ==
    IF r.entry = "cli" /\ MainLoopCommand(r.text) # "run"
    THEN [route |-> MainLoopCommand(r.text), warning |-> FALSE, tool_input |-> NoParams]
    ELSE Resolutions[r.text]

\* K8sAgent.run returns without calling a tool
ResolveNoTool ==
    /\ stage = "Resolving"
    /\ \E res \in {Resolved(req)} :
          /\ res.route \in {"empty", "help", "loop_help", "clarify"}
          /\ req' = [req EXCEPT !.kind = res.route]
          /\ warned' = res.warning
          /\ result' = [prefix |-> CASE res.route = "empty" -> "No input provided"
                                     [] res.route = "clarify" -> "Please be more specific"
                                     [] OTHER -> "Help displayed",
                        msg |-> "", detail |-> ""]
    /\ stage' = "Reporting"
    /\ trace' = Append(trace, "Reporting")
    /\ UNCHANGED <<config, params, manifest, invocations, running, tempFiles,
                   err, report, filesBefore, vIn, vOut>>

\* show_status: the text asks for the status
ResolveStatus ==
    /\ stage = "Resolving"
    /\ \E res \in {Resolved(req)} :
          /\ res.route \in {"status", "loop_status"}
          /\ req' = [req EXCEPT !.kind = res.route]
          /\ warned' = res.warning
    /\ stage' = "Executing"
    /\ trace' = Append(trace, "Executing")
    /\ UNCHANGED <<config, params, manifest, invocations, running, tempFiles,
                   err, result, report, filesBefore, vIn, vOut>>

\* one of the _process_*_command methods builds the tool input
ResolveTool ==
    /\ stage = "Resolving"
    /\ \E res \in {Resolved(req)} :
          /\ res.route \in ToolKinds
          /\ req' = [req EXCEPT !.kind = res.route, !.data = res.tool_input]
          /\ warned' = res.warning
    /\ stage' = "Validating"
    /\ trace' = Append(trace, "Validating")
    /\ UNCHANGED <<config, params, manifest, invocations, running, tempFiles,
                   err, result, report, filesBefore, vIn, vOut>>

AfterValidatingAnyway(kind, raised) ==
    IF kind \in CreateKinds THEN "Generating" ELSE "Executing"

\* where a tool's _run goes after its validator calls: to its except clause
\* when one raised
AfterValidating(kind, raised) ==
    IF ~raised.ok THEN "Reporting"
    ELSE IF kind \in CreateKinds THEN "Generating" ELSE "Executing"

\* what the validator calls c leave: the first exception raised, or the
\* locals of _run
Started(kind, data, c) ==
    [raised |-> FirstRaised(c),
     params |-> IF FirstRaised(c).ok THEN ToolParams(kind, data, c) ELSE NoParams]

\* the start of a tool's _run: json.loads, then the validator calls up to the
\* first that raises
ToolStart(kind, cfg, data) == Started(kind, data, ToolChecks(kind, cfg, data))

\* ToolStart for every configuration and endpoint body of the model,
\* evaluated once
HttpStarts ==
    [cfg \in Configs |-> [r \in HttpRequests |-> ToolStart(r.kind, cfg, r.data)]]

\* the same for the tool input K8sAgent.run built
TextStart(cfg, res) ==
    IF res.route \in ToolKinds THEN ToolStart(res.route, cfg, res.tool_input)
    ELSE [raised |-> NoErr, params |-> NoParams]

\* TextStart for every configuration and text of the model, evaluated once
TextStarts ==
    [cfg \in Configs |-> [text \in SampleTexts |-> TextStart(cfg, Resolutions[text])]]

\* the start of the tool's _run for the request r
StartOf(cfg, r) ==
    IF r.entry = "http" THEN HttpStarts[cfg][[kind |-> r.kind, data |-> r.data]]
    ELSE TextStarts[cfg][r.text]

\* the start of a tool's _run, and where it goes from there
Validate ==
    /\ stage = "Validating"
    /\ \E started \in {StartOf(config, req)} :
          /\ err' = started.raised
          /\ params' = started.params
          /\ result' = IF started.raised.ok THEN result
                        ELSE ToolError(req.kind, started.raised)
          /\ stage' = AfterValidating(req.kind, started.raised)
          /\ trace' = Append(trace, AfterValidating(req.kind, started.raised))
    /\ UNCHANGED <<config, req, manifest, invocations, running, tempFiles,
                   report, warned, filesBefore, vIn, vOut>>

\* generate_deployment_yaml or generate_service_yaml
Generate ==
    /\ stage = "Generating"
    /\ err.ok
    /\ manifest' = ToolManifest(req.kind, params)
    /\ stage' = "Executing"
    /\ trace' = Append(trace, "Executing")
    /\ UNCHANGED <<config, req, params, invocations, running, tempFiles,
                   err, result, report, warned, filesBefore, vIn, vOut>>

\* tempfile.NamedTemporaryFile: a name no file has
FreshFile == SetMin((1..(MaxTempFiles + 1)) \ tempFiles)

\* apply_yaml writes the manifest to a new file and starts kubectl apply
BeginApply ==
    /\ stage = "Executing"
    /\ running = NoCmd
    /\ req.kind \in CreateKinds
    /\ err.ok
    /\ tempFiles' = tempFiles \cup {FreshFile}
    /\ running' = [verb |-> "apply", file |-> FreshFile, dry_run |-> FALSE,
                   manifest |-> manifest]
    /\ UNCHANGED <<config, stage, req, params, manifest, invocations,
                   err, result, report, trace, warned, filesBefore, vIn, vOut>>

\* GET /api/resources calls the tool and then k8s_ops.list_resources itself
DirectListPending ==
    req.entry = "http" /\ req.kind = "list_resources" /\ Len(invocations) = 1

\* list_resources, get_logs and scale_deployment start kubectl
BeginOperation ==
    /\ stage = "Executing"
    /\ running = NoCmd
    /\ req.kind \in ToolKinds \ CreateKinds
    /\ err.ok \/ DirectListPending
    /\ LET again == IF req.kind = "scale_deployment"
                    THEN validate_replicas(config, params.replicas) ELSE NoErr
       IN  IF again.ok
           THEN /\ running' = ToolCommand(req.kind, params)
                /\ UNCHANGED <<stage, err, result, trace>>
           ELSE /\ err' = again
                /\ result' = ToolError(req.kind, again)
                /\ stage' = "Reporting"
                /\ trace' = Append(trace, "Reporting")
                /\ UNCHANGED running
    /\ UNCHANGED <<config, req, params, manifest, invocations, tempFiles,
                   report, warned, filesBefore, vIn, vOut>>

\* show_status starts kubectl version --client
BeginStatus ==
    /\ stage = "Executing"
    /\ running = NoCmd
    /\ req.kind \in {"status", "loop_status"}
    /\ running' = [verb |-> "version"]
    /\ UNCHANGED <<config, stage, req, params, manifest, invocations, tempFiles,
                   err, result, report, trace, warned, filesBefore, vIn, vOut>>

AfterExecutingRetry(r, n, o) ==
    IF o.how = "timeout" THEN "Executing" ELSE "Reporting"

\* where the request goes when the n-th kubectl invocation has returned
AfterExecuting(r, n, o) ==
    IF r.entry = "http" /\ r.kind = "list_resources" /\ n = 1
    THEN "Executing" ELSE "Reporting"

\* kubectl exits, times out or cannot be started; the operation, then the
\* tool (or show_status, or the endpoint) deal with it
KubectlReturns(o) ==
    /\ stage = "Executing"
    /\ running # NoCmd
    /\ LET ret == IF running.verb = "version" THEN run_kubectl(o)
                  ELSE OperationReturn(running, o)
           next == AfterExecuting(req, Len(invocations) + 1, o)
       IN  /\ invocations' = Append(invocations, [cmd |-> running, outcome |-> o,
                                                 run |-> run_kubectl(o), ret |-> ret])
           /\ tempFiles' = IF running.verb = "apply" /\ ApplyUnlinks(o)
                           THEN tempFiles \ {running.file} ELSE tempFiles
           /\ err' = IF ret.ok THEN err ELSE ret
           /\ result' = CASE running.verb = "version" ->
                                [prefix |-> "Status displayed", msg |-> "", detail |-> ""]
                          [] DirectListPending -> result
                          [] OTHER -> IF ret.ok THEN ToolSuccess(req.kind, ret, o)
                                      ELSE ToolError(req.kind, ret)
           /\ stage' = next
           /\ trace' = Append(trace, next)
    /\ running' = NoCmd
    /\ UNCHANGED <<config, req, params, manifest, report, warned, filesBefore, vIn, vOut>>

\* the request failed: a validator or an operation raised, or kubectl did
\* not exit with code 0
Failed ==
    \/ ~err.ok
    \/ \E i \in DOMAIN invocations :
          ~(invocations[i].outcome.how = "exited" /\ invocations[i].outcome.code = 0)

\* what the caller is told: the interactive loop prints "Operation
\* completed" for every non-empty result of agent.run; /api/chat and the tool
\* endpoints answer status "success" unless an exception reaches them
CallerReport ==
    CASE req.kind = "loop_help" -> [succeeded |-> TRUE, message |-> "help"]
      [] req.kind = "loop_status" ->
            [succeeded |-> invocations[1].ret.ok /\ invocations[1].ret.val.success,
             message |-> "status"]
      [] req.entry = "http" /\ req.kind = "list_resources" /\ Len(invocations) = 2
         /\ ~invocations[2].ret.ok ->
            [succeeded |-> FALSE, message |-> "List resources failed: "]
      [] OTHER -> [succeeded |-> TRUE, message |-> result.prefix]

\* the caller gets the answer
Report ==
    /\ stage = "Reporting"
    /\ report = NoReport
    /\ report' = CallerReport
    /\ UNCHANGED <<config, stage, req, params, manifest, invocations, running,
                   tempFiles, err, result, trace, warned, filesBefore, vIn, vOut>>

\* the handler returns, its locals are gone; the loop reads the next line
NextRequest ==
    /\ stage = "Reporting"
    /\ report # NoReport
    /\ stage' = "Idle"
    /\ req' = NoReq
    /\ params' = NoParams
    /\ manifest' = NoManifest
    /\ invocations' = <<>>
    /\ err' = NoErr
    /\ result' = NoResult
    /\ report' = NoReport
    /\ trace' = <<>>
    /\ warned' = FALSE
    /\ filesBefore' = tempFiles
    /\ UNCHANGED <<config, running, tempFiles, vIn, vOut>>

Step ==
    \/ ResolveNoTool
    \/ ResolveStatus
    \/ ResolveTool
    \/ Validate
    \/ Generate
    \/ BeginApply
    \/ BeginOperation
    \/ BeginStatus
    \/ \E o \in Outcomes : KubectlReturns(o)
    \/ Report
    \/ NextRequest

Receive ==
    \/ \E entry \in {"cli", "chat"}, text \in SampleTexts : ReceiveText(entry, text)
    \/ \E r \in HttpRequests : ReceiveHttp(r)

NoCall == [fn |-> "none", arg |-> <<>>]

Pending == [pending |-> TRUE]

Init ==
    /\ PipeInit
    /\ vIn = NoCall
    /\ vOut = Pending

Next == Receive \/ Step

Spec == Init /\ [][Next]_vars

\* every started handler runs on, and every started kubectl returns
FairSpec == Spec /\ WF_vars(Step)

-----------------------------------------------------------------------------
(* The validators on their own: one call, its argument drawn from the       *)
(* strings over a small alphabet and from strings about as long as the     *)
(* longest name allowed.                                                  *)

MaxInputLen == 3

NameAlphabet == {"a", "0", "-", "A", " ", "\n"}

ShortStrings == UNION {[1..n -> NameAlphabet] : n \in 0..MaxInputLen}

Filled(f, k, m, l) == <<f>> \o [i \in 1..k |-> m] \o <<l>>

LongStrings ==
    {Filled(f, k, m, l) : f \in {"a", "-"}, k \in (MaxNameLen - 3)..MaxNameLen,
                          m \in {"a", "-"}, l \in {"a", "-", "\n"}}

\* short and long names, and one written with capitals and surrounding blanks
NameInputs ==
    ShortStrings \cup LongStrings \cup {<<" ", "W", "e", "b", "A", "p", "p", " ">>}

\* the K8sConfig a validator is constructed with when nothing is overridden
DefaultConfig ==
    [namespace |-> DefaultNamespace, max_replicas |-> MaxReplicasDefault,
     allowed_images |-> AllowedImages, forbidden_namespaces |-> ForbiddenNamespaces,
     dry_run |-> FALSE]

NamespaceInputs ==
    {None,
     <<>>,
     <<"d", "e", "f", "a", "u", "l", "t">>,
     <<"p", "r", "o", "d">>,
     <<"k", "u", "b", "e", "-", "s", "y", "s", "t", "e", "m">>,
     <<"K", "u", "b", "e", "-", "S", "y", "s", "t", "e", "m">>,
     <<"K", "U", "B", "E", "-", "S", "Y", "S", "T", "E", "M">>,
     <<"k", "u", "b", "e", "-", "p", "u", "b", "l", "i", "c">>,
     <<"K", "u", "b", "e", "-", "P", "u", "b", "l", "i", "c">>,
     <<"k", "u", "b", "e", "-", "n", "o", "d", "e", "-", "l", "e", "a", "s", "e">>,
     <<"K", "u", "b", "e", "_", "S", "y", "s", "t", "e", "m">>,
     <<"-", "b", "a", "d">>,
     <<"b", "a", "d", " ", "n", "a", "m", "e">>}

ImageInputs ==
    {None,
     <<>>,
     <<"n", "g", "i", "n", "x">>,
     <<"N", "g", "i", "n", "x">>,
     <<"N", "G", "I", "N", "X">>,
     <<"n", "g", "i", "n", "x", ":", "1", ".", "2", "1">>,
     <<"n", "o", "t", "a", "l", "l", "o", "w", "e", "d", ":", "l", "a", "t", "e", "s", "t">>,
     <<"r", "e", "d", "i", "s", ":", "7">>,
     <<"e", "v", "i", "l">>,
     <<"n", "g", "i", "n", "x", " ", "l", "a", "t", "e", "s", "t">>,
     <<"n", "g", "i", "n", "x", ":">>,
     <<"m", "y", "/", "n", "g", "i", "n", "x", ":", "1", ".", "2">>,
     <<"n", "g", "i", "n", "x", "\n">>,
     <<" ", "n", "g", "i", "n", "x">>}

\* the calls of the model, each with the K8sConfig of its validator:
\* - replica counts on both sides of several configured maxima;
\* - default namespaces that are usable, forbidden or malformed, with the
\*   default forbidden list, an empty one, and one whose entries are not
\*   well-formed names;
\* - the default allowed list, an empty one, one with an upper-case entry,
\*   and a short one;
\* - mappings for generate_secret_yaml with no key, one key and two keys; a
\*   value is the code points of its text: "?", "a", e acute, the euro sign
\*   and an emoji take one to four bytes each
ValidatorInit ==
    /\ PipeIdle
    /\ vOut = Pending
    /\ \/ /\ config = DefaultConfig
          /\ vIn \in {[fn |-> "validate_name", arg |-> n] : n \in NameInputs}
       \/ /\ config \in {[DefaultConfig EXCEPT !.max_replicas = m] :
                            m \in {-1, 0, 3, MaxReplicasDefault}}
          /\ vIn \in {[fn |-> f, arg |-> r] :
                         f \in {"validate_replicas", "scale_deployment"},
                         r \in (-2)..(MaxReplicasDefault + 2)}
       \/ /\ config \in
                {[DefaultConfig EXCEPT !.namespace = ns, !.forbidden_namespaces = f] :
                    ns \in {DefaultNamespace, KubeSystem,
                            <<"P", "r", "o", "d">>, <<"p", "r", "o", "d">>},
                    f \in {ForbiddenNamespaces, {},
                           {KubeSystem,
                            <<"K", "u", "b", "e", "_", "S", "y", "s", "t", "e", "m">>,
                            <<"-", "b", "a", "d">>}}}
          /\ vIn \in {[fn |-> "validate_namespace", arg |-> n] : n \in NamespaceInputs}
       \/ /\ config \in
                {[DefaultConfig EXCEPT !.allowed_images = a] :
                    a \in {AllowedImages, {}, {<<"N", "g", "i", "n", "x">>},
                           {<<"n", "g", "i", "n", "x">>, <<"r", "e", "d", "i", "s">>}}}
          /\ vIn \in {[fn |-> "validate_image", arg |-> i] : i \in ImageInputs}
       \/ /\ config = DefaultConfig
          /\ LET SecretValues ==
                     UNION {[1..n -> {63, 97, 233, 8364, 128512}] : n \in 0..MaxInputLen}
                 SecretInputs ==
                     {<<>>}
                     \cup {[k \in {"password"} |-> v] : v \in SecretValues}
                     \cup {[k \in {"password", "user"} |-> IF k = "user" THEN u ELSE v] :
                              u \in {<<>>, <<97>>}, v \in SecretValues}
             IN  vIn \in {[fn |-> "generate_secret_yaml", arg |-> d] : d \in SecretInputs}

CallValidateName ==
    /\ vIn.fn = "validate_name"
    /\ vOut = Pending
    /\ vOut' = validate_name(vIn.arg)
    /\ UNCHANGED <<pipeVars, vIn>>

CallValidateReplicas ==
    /\ vIn.fn = "validate_replicas"
    /\ vOut = Pending
    /\ vOut' = validate_replicas(config, vIn.arg)
    /\ UNCHANGED <<pipeVars, vIn>>

\* K8sOperations.scale_deployment up to the point where kubectl would start:
\* the replica count is validated again, then the command is built
CallScaleDeployment ==
    /\ vIn.fn = "scale_deployment"
    /\ vOut = Pending
    /\ \E again \in {validate_replicas(config, vIn.arg)} :
          vOut' = IF again.ok
                  THEN Ok(ToolCommand("scale_deployment",
                                      [name |-> S_webapp, replicas |-> vIn.arg,
                                       namespace |-> None]))
                  ELSE again
    /\ UNCHANGED <<pipeVars, vIn>>

CallValidateNamespace ==
    /\ vIn.fn = "validate_namespace"
    /\ vOut = Pending
    /\ vOut' = validate_namespace(config, vIn.arg)
    /\ UNCHANGED <<pipeVars, vIn>>

CallValidateImage ==
    /\ vIn.fn = "validate_image"
    /\ vOut = Pending
    /\ vOut' = validate_image(config, vIn.arg)
    /\ UNCHANGED <<pipeVars, vIn>>

CallGenerateSecret ==
    /\ vIn.fn = "generate_secret_yaml"
    /\ vOut = Pending
    /\ vOut' = generate_secret_yaml(S_api, vIn.arg, S_default)
    /\ UNCHANGED <<pipeVars, vIn>>

ValidatorNext ==
    \/ CallValidateName
    \/ CallValidateReplicas
    \/ CallScaleDeployment
    \/ CallValidateNamespace
    \/ CallValidateImage
    \/ CallGenerateSecret

ValidatorSpec == ValidatorInit /\ [][ValidatorNext]_vars

-----------------------------------------------------------------------------
(* ConnectionManager.broadcast of backend/main.py.  vIn is the call: the    *)
(* connections registered when it starts and the ones whose send_text      *)
(* raises.  vOut is its frame: active_connections, the position of the     *)
(* list iterator of the for loop, the sends attempted so far, and whether  *)
(* the call has returned.                                                  *)

MaxConnections == 3

BroadcastInit ==
    /\ PipeIdle
    /\ config = DefaultConfig
    /\ \E n \in 0..MaxConnections :
          \E conns \in {c \in [1..n -> 1..MaxConnections] :
                           \A i, j \in 1..n : i # j => c[i] # c[j]} :
             \E failing \in SUBSET {conns[i] : i \in 1..n} :
                /\ vIn = [fn |-> "broadcast",
                          arg |-> [connections |-> conns, failing |-> failing]]
                /\ vOut = [active |-> conns, index |-> 0, sent |-> <<>>,
                           returned |-> FALSE]

\* one pass of the loop body: the iterator yields the element at its
\* position and moves on; send_text is awaited; when it raises, the
\* connection is removed from the list the loop is iterating over
BroadcastSend ==
    /\ vIn.fn = "broadcast"
    /\ ~vOut.returned
    /\ vOut.index < Len(vOut.active)
    /\ \E connection \in {vOut.active[vOut.index + 1]} :
          vOut' = [vOut EXCEPT
                     !.index = @ + 1,
                     !.sent = Append(@, connection),
                     !.active = IF connection \in vIn.arg.failing
                                THEN SelectSeq(@, LAMBDA c : c # connection)
                                ELSE @]
    /\ UNCHANGED <<pipeVars, vIn>>

\* the iterator is exhausted when its position has reached the length the
\* list has now
BroadcastReturn ==
    /\ vIn.fn = "broadcast"
    /\ ~vOut.returned
    /\ vOut.index >= Len(vOut.active)
    /\ vOut' = [vOut EXCEPT !.returned = TRUE]
    /\ UNCHANGED <<pipeVars, vIn>>

BroadcastSpec == BroadcastInit /\ [][BroadcastSend \/ BroadcastReturn]_vars

-----------------------------------------------------------------------------
(* Two requests inside K8sOperations.apply_yaml at the same time.  vIn is   *)
(* the pair of calls with the manifest of each.  vOut holds the directory  *)
(* of temporary files, a mapping from file name to content, and the frame  *)
(* of each call: where it is, the name of its file, and what kubectl read. *)

\* a NamedTemporaryFile that always takes the same name
NamedTemporaryFileFixedName(disk) == {1}

\* the names tempfile.NamedTemporaryFile can return: the file is opened with
\* O_EXCL, so any name that has no file
NamedTemporaryFile(disk) == (1..(MaxTempFiles + 1)) \ DOMAIN disk

ConcurrentInit ==
    /\ PipeIdle
    /\ config = DefaultConfig
    /\ \E yaml_content \in
            [1..2 -> {generate_deployment_yaml(n, S_nginx, 1, S_default, DefaultPort,
                                               DefaultCpuLimit, DefaultMemoryLimit) :
                        n \in {S_api, S_webapp}}] :
          vIn = [fn |-> "apply_yaml", arg |-> yaml_content]
    /\ vOut = [disk  |-> <<>>,
               calls |-> [i \in 1..2 |-> [pc |-> "start", file |-> 0, read |-> NoManifest]]]

\* a step of call i of apply_yaml
ApplyStep(i) ==
    /\ vIn.fn = "apply_yaml"
    /\ LET call == vOut.calls[i]
           disk == vOut.disk
       IN  \/ \* NamedTemporaryFile(delete=False) creates an empty file
              /\ call.pc = "start"
              /\ \E f \in NamedTemporaryFile(disk) :
                    vOut' = [disk  |-> [n \in DOMAIN disk \cup {f} |->
                                           IF n = f THEN NoManifest ELSE disk[n]],
                             calls |-> [vOut.calls EXCEPT ![i] =
                                           [call EXCEPT !.pc = "opened", !.file = f]]]
           \/ \* f.write and the end of the with block: the content is on disk
              /\ call.pc = "opened"
              /\ vOut' = [disk  |-> [n \in DOMAIN disk \cup {call.file} |->
                                        IF n = call.file THEN vIn.arg[i] ELSE disk[n]],
                          calls |-> [vOut.calls EXCEPT ![i] = [call EXCEPT !.pc = "written"]]]
           \/ \* _run_kubectl: kubectl apply -f reads the file, then returns or
              \* the call raises (timeout, no kubectl) and leaves apply_yaml
              /\ call.pc = "written"
              /\ \E returns \in BOOLEAN :
                    vOut' = [vOut EXCEPT !.calls[i] =
                               [call EXCEPT
                                  !.pc = IF returns THEN "returned" ELSE "done",
                                  !.read = IF call.file \in DOMAIN disk
                                           THEN disk[call.file] ELSE NoManifest]]
           \/ \* os.unlink(temp_file), an OSError is passed over
              /\ call.pc = "returned"
              /\ vOut' = [disk  |-> [n \in DOMAIN disk \ {call.file} |-> disk[n]],
                          calls |-> [vOut.calls EXCEPT ![i] = [call EXCEPT !.pc = "done"]]]
    /\ UNCHANGED <<pipeVars, vIn>>

ConcurrentSpec == ConcurrentInit /\ [][\E i \in 1..2 : ApplyStep(i)]_vars

-----------------------------------------------------------------------------
(* Properties *)

\* every kubectl command line of the request in hand, started or returned
Commands ==
    [i \in 1..(Len(invocations) + IF running = NoCmd THEN 0 ELSE 1) |->
        IF i <= Len(invocations) THEN invocations[i].cmd ELSE running]

\* a Kubernetes name: lower-case letters, digits and hyphens, no hyphen at
\* either end, 1 to 63 characters
NameIsValid(n) ==
    /\ Len(n) \in 1..MaxNameLen
    /\ \A i \in DOMAIN n : n[i] \in Lower \cup Digit \cup {"-"}
    /\ n[1] # "-"
    /\ n[Len(n)] # "-"

\* the parameters a command line carries are ones the guardrails accept
CommandIsGuarded(c) ==
    CASE c.verb = "apply" ->
            /\ c.manifest.metadata.namespace \notin ForbiddenNamespaces
            /\ NameIsValid(c.manifest.metadata.namespace)
            /\ NameIsValid(c.manifest.metadata.labels.app)
            /\ c.manifest.kind = "Deployment" =>
                  /\ validate_image(config, c.manifest.spec.container.image).ok
                  /\ validate_replicas(config, c.manifest.spec.replicas).ok
                  /\ validate_port(c.manifest.spec.container.port).ok
            /\ c.manifest.kind = "Service" =>
                  /\ validate_port(c.manifest.spec.port).ok
                  /\ validate_port(c.manifest.spec.targetPort).ok
      [] c.verb = "scale" ->
            /\ c.ns # None => c.ns \notin ForbiddenNamespaces /\ NameIsValid(c.ns)
            /\ NameIsValid(c.name)
            /\ validate_replicas(config, c.replicas).ok
      [] c.verb = "get" ->
            c.ns # None => c.ns \notin ForbiddenNamespaces /\ NameIsValid(c.ns)
      [] c.verb = "logs" ->
            /\ c.ns # None => c.ns \notin ForbiddenNamespaces /\ NameIsValid(c.ns)
            /\ NameIsValid(c.pod)
      [] OTHER -> TRUE

\* C1: every kubectl invocation, whichever entry the request came through,
\* carries only parameters the guardrails accept: its namespace (-n or the
\* manifest's) is not forbidden, its names, image, replica count and ports
\* pass their validators.
OnlyGuardedParametersReachKubectl ==
    \A i \in DOMAIN Commands : CommandIsGuarded(Commands[i])

GuardrailRaised == ~err.ok /\ err.class \in {"ValidationError", "SecurityError"}

\* C2: when a guardrail check fails the request goes to its report with no
\* side effect: no kubectl invocation was started, no manifest was generated
\* and no temporary file was created for it.
GuardrailFailureHasNoSideEffect ==
    GuardrailRaised =>
        /\ stage = "Reporting"
        /\ invocations = <<>>
        /\ running = NoCmd
        /\ manifest = NoManifest
        /\ tempFiles = filesBefore

\* C2, its case: a forbidden namespace was refused and the refusal reported
GuardrailFailureReported ==
    /\ stage = "Reporting"
    /\ report # NoReport
    /\ ~err.ok
    /\ err.class = "SecurityError"
    /\ req.kind \in CreateKinds

\* C3: once a request is reported, the temporary manifest file apply wrote for
\* it is gone, however kubectl ended; so no temporary file is ever left on
\* disk between requests.
TempFileRemovedOnEveryExit ==
    stage \in {"Reporting", "Idle"} => tempFiles = {}

\* the error kind a caller reads from what an operation raised
ErrorKind(e) ==
    CASE e.msg = TimeoutMessage -> "OperationTimeout"
      [] e.msg = NotFoundMessage -> "ToolUnavailable"
      [] e.msg \in {"Failed to apply YAML: ", "Failed to list: ",
                    "Failed to scale deployment: ", "Failed to get logs: "}
            -> "OperationFailed"
      [] OTHER -> "Other"

MalformedListOutputIsMalformedResponse ==
    \A i \in DOMAIN invocations :
        LET inv == invocations[i]
        IN  (/\ inv.cmd.verb = "get"
             /\ inv.outcome.how = "exited"
             /\ inv.outcome.code = 0
             /\ ~JsonLoads(inv.outcome.stdout).ok)
            => ~inv.ret.ok /\ inv.ret.class = "MalformedResponse"

\* C6: the caller is told the request succeeded only if it did: no validator
\* and no operation raised, and every kubectl invocation exited with code 0.
SuccessReportedOnlyOnSuccess ==
    (stage = "Reporting" /\ report # NoReport /\ report.succeeded) => ~Failed

StageRank(s) ==
    CASE s = "Resolving"  -> 1
      [] s = "Validating" -> 2
      [] s = "Generating" -> 3
      [] s = "Executing"  -> 4
      [] s = "Reporting"  -> 5

\* C7: a request enters its stages in the order Resolving, Validating,
\* Generating (create requests only), Executing, Reporting, each at most
\* once, and once it has failed it is in Reporting: no other stage is
\* entered after a failure.
StagesInOrderAndFailureShortCircuits ==
    /\ \A i \in 1..(Len(trace) - 1) : StageRank(trace[i]) < StageRank(trace[i + 1])
    /\ (\E i \in DOMAIN trace : trace[i] = "Generating") => req.kind \in CreateKinds
    /\ Failed => stage = "Reporting"

\* C8: a request starts at most one kubectl invocation, and a reported list
\* request has made exactly one.
AtMostOneInvocationPerRequest ==
    /\ Len(Commands) <= 1
    /\ (stage = "Reporting" /\ req.kind = "list_resources") => Len(invocations) = 1

\* between requests nothing of the last request is left in the pipeline
IdleIsClean ==
    /\ req = NoReq
    /\ params = NoParams
    /\ manifest = NoManifest
    /\ invocations = <<>>
    /\ running = NoCmd
    /\ err = NoErr
    /\ result = NoResult
    /\ report = NoReport

\* C9: every request that has arrived is reported to its caller, and every
\* reported request, failed or not, leaves the pipeline idle and clean for
\* the next one (each started kubectl ends: exit, timeout or not found).
EveryRequestIsReported ==
    /\ (stage # "Idle") ~> (stage = "Reporting" /\ report # NoReport)
    /\ (stage = "Reporting") ~> (stage = "Idle" /\ IdleIsClean)

\* C9, its case: an earlier request timed out in apply (its file is still
\* there), and the request after it ran kubectl and succeeded
RequestSucceedsAfterFailedOne ==
    /\ filesBefore # {}
    /\ stage = "Reporting"
    /\ report # NoReport
    /\ report.succeeded
    /\ invocations # <<>>
    /\ ~Failed

\* C10: validate_name succeeds exactly on the names that match the pattern
\* and have at most 63 characters, and raises the invalid-name error on all
\* others.
ValidateNameAcceptsExactlyValidNames ==
    (vIn.fn = "validate_name" /\ vOut # Pending) =>
        /\ vOut.ok <=> NameIsValid(vIn.arg)
        /\ ~vOut.ok => vOut.class = "ValidationError"

\* C11: validate_name lower-cases and trims before the pattern check: a raw
\* name whose lower-cased, trimmed form is a valid name is accepted, and the
\* returned name is that form.
ValidateNameNormalisesBeforeChecking ==
    (/\ vIn.fn = "validate_name"
     /\ vOut # Pending
     /\ NameIsValid(StripStr(LowerStr(vIn.arg)))) =>
        /\ vOut.ok
        /\ vOut.val = StripStr(LowerStr(vIn.arg))

\* the replica count of the call lies within the configured bound
ReplicasInRange == 0 <= vIn.arg /\ vIn.arg <= config.max_replicas

\* C12: for every replica count r and configured maximum m, validate_replicas
\* succeeds, returning r, exactly when 0 <= r <= m and raises the
\* invalid-replicas error otherwise; scale_deployment enforces the same
\* bound before it builds the command kubectl would run.
ReplicasAcceptedExactlyWithinBound ==
    /\ (vIn.fn = "validate_replicas" /\ vOut # Pending) =>
          /\ vOut.ok <=> ReplicasInRange
          /\ vOut.ok => vOut.val = vIn.arg
          /\ ~vOut.ok => vOut.class = "ValidationError"
    /\ (vIn.fn = "scale_deployment" /\ vOut # Pending) =>
          /\ vOut.ok <=> ReplicasInRange
          /\ vOut.ok => vOut.val.verb = "scale" /\ vOut.val.replicas = vIn.arg
          /\ ~vOut.ok => vOut.class = "ValidationError"

\* a scale to one replica above the maximum stops before the command
ScaleAboveMaximumStopped ==
    /\ vIn.fn = "scale_deployment"
    /\ vIn.arg = config.max_replicas + 1
    /\ vOut # Pending
    /\ ~vOut.ok

\* C13 as stated: for every configuration, validate_namespace of the empty
\* string returns the configuration's default namespace.
EmptyNamespaceGivesDefault ==
    (vIn.fn = "validate_namespace" /\ vIn.arg = <<>> /\ vOut # Pending) =>
        /\ vOut.ok
        /\ vOut.val = config.namespace

\* C13: for every configuration whose default namespace is a valid name
\* outside the forbidden list, validate_namespace of the empty string returns
\* that default; when the default is itself forbidden the call raises the
\* forbidden-namespace error.
EmptyNamespaceGivesUsableDefault ==
    (vIn.fn = "validate_namespace" /\ vIn.arg = <<>> /\ vOut # Pending) =>
        /\ config.namespace \in config.forbidden_namespaces =>
              ~vOut.ok /\ vOut.class = "SecurityError"
        /\ (/\ NameIsValid(config.namespace)
            /\ config.namespace \notin config.forbidden_namespaces) =>
              vOut.ok /\ vOut.val = config.namespace

\* the empty namespace was replaced by a default other than "default"
EmptyNamespaceReplaced ==
    /\ vIn.fn = "validate_namespace"
    /\ vIn.arg = <<>>
    /\ config.namespace # DefaultNamespace
    /\ vOut # Pending
    /\ vOut.ok
    /\ vOut.val = config.namespace

\* the namespace validate_namespace checks: the argument, or the default
CheckedNamespace == IF Truthy(vIn.arg) THEN vIn.arg ELSE config.namespace

\* C14: validate_namespace raises the forbidden-namespace error for every
\* namespace that equals a member of the forbidden list up to letter case;
\* no case variant is accepted or refused with another error.
CaseVariantOfForbiddenIsForbidden ==
    (/\ vIn.fn = "validate_namespace"
     /\ vOut # Pending
     /\ Truthy(vIn.arg)
     /\ \E f \in config.forbidden_namespaces : LowerStr(f) = LowerStr(vIn.arg)) =>
        /\ ~vOut.ok
        /\ vOut.class = "SecurityError"

\* C15: the forbidden check runs before name validation: a namespace that
\* is in the forbidden list and is not a well-formed name is refused with
\* the forbidden-namespace error, never with the invalid-name error.
ForbiddenCheckedBeforeName ==
    (/\ vIn.fn = "validate_namespace"
     /\ vOut # Pending
     /\ CheckedNamespace \in config.forbidden_namespaces
     /\ ~NameIsValid(CheckedNamespace)) =>
        /\ ~vOut.ok
        /\ vOut.class = "SecurityError"

\* a forbidden namespace that is no well-formed name was refused as forbidden
MalformedForbiddenRefused ==
    /\ vIn.fn = "validate_namespace"
    /\ Truthy(vIn.arg)
    /\ vIn.arg \in config.forbidden_namespaces
    /\ ~validate_name(vIn.arg).ok
    /\ vOut # Pending
    /\ ~vOut.ok
    /\ vOut.class = "SecurityError"

\* repo[:tag]: a non-empty repository of letters, digits, ".", "_", "/", "-",
\* then optionally ":" and a non-empty tag of the same characters but "/"
ImageIsWellFormed(s) ==
    LET TagChar == Lower \cup Upper \cup Digit \cup {".", "_", "-"}
        RepoChar == TagChar \cup {"/"}
    IN  \E k \in 1..Len(s) :
            /\ \A i \in 1..k : s[i] \in RepoChar
            /\ \/ k = Len(s)
               \/ /\ k + 2 <= Len(s)
                  /\ s[k + 1] = ":"
                  /\ \A i \in (k + 2)..Len(s) : s[i] \in TagChar

\* C16: for every image and every configured allowed list, an empty list
\* and entries with upper-case letters included, validate_image succeeds
\* exactly when the image is non-empty, contains an allowed entry compared
\* without regard to case, and is well-formed as repo[:tag]; otherwise it
\* raises the invalid-image error.
ImageAcceptedExactlyWhenAllowedAndWellFormed ==
    (vIn.fn = "validate_image" /\ vOut # Pending) =>
        /\ vOut.ok <=>
              /\ Truthy(vIn.arg)
              /\ \E a \in config.allowed_images :
                    Contains(LowerStr(a), LowerStr(vIn.arg))
              /\ ImageIsWellFormed(vIn.arg)
        /\ ~vOut.ok => vOut.class = "ValidationError"

\* C17: the text "Create a deployment named api with nginx image and 3
\* replicas" resolves to the creation of a deployment with name "api",
\* image "nginx" and 3 replicas, and the manifest handed to kubectl has
\* metadata.name "api" and spec.replicas 3.
DeploymentSentenceCreatesApi ==
    (req.text = DeploymentSentence /\ req.kind # "text") =>
        /\ req.kind = "create_deployment"
        /\ req.data = [name |-> S_api, image |-> S_nginx, replicas |-> 3]
        /\ running.verb = "apply" =>
              /\ running.manifest.metadata.name = S_api
              /\ running.manifest.spec.replicas = 3
        /\ (stage = "Reporting" /\ config.namespace = DefaultNamespace) =>
              /\ invocations # <<>>
              /\ invocations[1].cmd.verb = "apply"

\* the rules of the resolver in the order the claim gives them, each with
\* whether the lower-cased text matches it; the help and status keywords are
\* the ones K8sAgent.run lists, found anywhere in the text
RoutingRules(low) ==
    << [kind |-> "help", matches |-> \E k \in HelpKeywords : Contains(k, low)],
       [kind |-> "status", matches |-> \E k \in StatusKeywords : Contains(k, low)],
       [kind |-> "create_deployment",
        matches |-> Contains(S_create, low) /\ Contains(S_deployment, low)],
       [kind |-> "create_service",
        matches |-> Contains(S_create, low) /\ Contains(S_service, low)],
       [kind |-> "list_resources", matches |-> Contains(S_list, low)],
       [kind |-> "scale_deployment", matches |-> Contains(S_scale, low)],
       [kind |-> "get_logs", matches |-> Contains(S_log, low)] >>

\* for every text of the model, the kinds of the rules it matches, in order
MatchingRules ==
    [text \in SampleTexts |->
        SelectSeq(RoutingRules(LowerStr(text)), LAMBDA r : r.matches)]

\* the route a request took, the loop's own help and status included
RouteTaken ==
    CASE req.kind = "loop_help" -> "help"
      [] req.kind = "loop_status" -> "status"
      [] OTHER -> req.kind

\* C18: the resolver applies its rules in a fixed order and the first match
\* wins: help keyword, status keyword, create and deployment, create and
\* service, list, scale, log; a non-blank text that matches several rules
\* takes the earliest one, and one that matches none gets the clarification
\* response, with no error and no kubectl invocation.
FirstMatchingRuleWins ==
    (req.entry \in {"cli", "chat"} /\ req.kind # "text" /\ StripStr(req.text) # <<>>) =>
        IF MatchingRules[req.text] # <<>>
        THEN RouteTaken = MatchingRules[req.text][1].kind
        ELSE /\ req.kind = "clarify"
             /\ stage = "Reporting"
             /\ result.prefix = "Please be more specific"
             /\ err.ok
             /\ invocations = <<>>
             /\ running = NoCmd
             /\ report # NoReport => report.succeeded

\* a text that matches the list, scale and log rules was listed
SeveralRulesMatchedListWon ==
    /\ req.entry \in {"cli", "chat"}
    /\ req.kind = "list_resources"
    /\ Len(MatchingRules[req.text]) = 3
    /\ invocations # <<>>
    /\ invocations[1].cmd.verb = "get"

\* the texts of the model that hold "delete", "remove", "destroy" or "kill"
DangerousTexts == {text \in SampleTexts : IsDangerous(text)}

\* C19: a request text with a dangerous keyword gets the warning before any
\* kubectl invocation of the request, and the warning is no veto: the
\* request takes the route the rules prescribe, with the parameters the
\* text gives, and a request the guardrails accept is executed.
DangerWarningPrecedesAndDoesNotVeto ==
    (req.entry \in {"cli", "chat"} /\ req.text \in DangerousTexts) =>
        /\ req.kind = "text" => ~warned /\ invocations = <<>> /\ running = NoCmd
        /\ req.kind # "text" =>
              /\ warned
              /\ RouteTaken = IF MatchingRules[req.text] # <<>>
                               THEN MatchingRules[req.text][1].kind
                               ELSE "clarify"
              /\ req.kind \in ToolKinds =>
                    /\ req.data = ToolInputOf(req.kind, req.text)
                    /\ (stage = "Reporting" /\ err.ok) => invocations # <<>>

\* a warned request was listed by kubectl and reported as a success
WarnedRequestExecuted ==
    /\ req.text \in DangerousTexts
    /\ warned
    /\ req.kind = "list_resources"
    /\ invocations # <<>>
    /\ invocations[1].cmd.verb = "get"
    /\ report.succeeded

\* the resolved request has the parameter, and it is the default when the
\* text does not hold the word the parameter's pattern needs
DefaultWhenAbsent(field, word, default) ==
    /\ field \in DOMAIN req.data
    /\ ~Contains(word, LowerStr(req.text)) => req.data[field] = default

\* C20: for every text routed to an operation, extraction does not fail: a
\* parameter whose pattern cannot match takes its default (name "webapp",
\* image "nginx", replicas 1, port 80, pod "webapp", resource type pods),
\* so every resolved request is complete.
ExtractionAlwaysCompletes ==
    (req.entry \in {"cli", "chat"} /\ req.kind \in ToolKinds) =>
        CASE req.kind = "create_deployment" ->
                    /\ DOMAIN req.data = {"name", "image", "replicas"}
                    /\ DefaultWhenAbsent("name", <<"n","a","m","e">>, S_webapp)
                    /\ DefaultWhenAbsent("image", S_image, S_nginx)
                    /\ DefaultWhenAbsent("replicas", S_replica, 1)
                    /\ req.data.replicas \in Nat
             [] req.kind = "create_service" ->
                    /\ DOMAIN req.data = {"name", "port"}
                    /\ DefaultWhenAbsent("name", <<"f","o","r">>, S_webapp)
                    /\ DefaultWhenAbsent("port", <<"p","o","r","t">>, DefaultPort)
                    /\ req.data.port \in Nat
             [] req.kind = "list_resources" ->
                    /\ DOMAIN req.data = {"resource_type"}
                    /\ (~Contains(S_deployment, LowerStr(req.text))
                        /\ ~Contains(S_service, LowerStr(req.text))) =>
                          req.data.resource_type = S_pods
             [] req.kind = "scale_deployment" ->
                    /\ DOMAIN req.data = {"name", "replicas"}
                    /\ DefaultWhenAbsent("name", S_deployment, S_webapp)
                    /\ DefaultWhenAbsent("replicas", S_replica, 1)
                    /\ req.data.replicas \in Nat
             [] req.kind = "get_logs" ->
                    /\ DOMAIN req.data = {"pod_name"}
                    /\ DefaultWhenAbsent("pod_name", <<"p","o","d">>, S_webapp)

\* a text that names nothing created the deployment of the defaults
DefaultsDeployed ==
    /\ req.entry \in {"cli", "chat"}
    /\ req.kind = "create_deployment"
    /\ req.data = [name |-> S_webapp, image |-> S_nginx, replicas |-> 1]
    /\ invocations # <<>>
    /\ invocations[1].cmd.verb = "apply"
    /\ invocations[1].cmd.manifest.metadata.name = S_webapp
    /\ invocations[1].cmd.manifest.spec.replicas = 1

\* C21: in every deployment manifest that is generated, the resource requests
\* are cpu 100m and memory 128Mi and each request is less than the limit of
\* the same manifest, whatever cpu and memory limit the request supplies.
RequestsFixedAndBelowLimits ==
    manifest.kind = "Deployment" =>
        LET resources == manifest.spec.container
        IN  /\ resources.requests.cpu = RequestCpu
            /\ resources.requests.memory = RequestMemory
            /\ resources.requests.cpu < resources.limits.cpu
            /\ resources.requests.memory < resources.limits.memory

\* base64 decoding: every four characters give three bytes, fewer where the
\* group ends in "="
B64Value(c) == (CHOOSE i \in DOMAIN B64Alphabet : B64Alphabet[i] = c) - 1

RECURSIVE B64Decode(_)
B64Decode(chars) ==
    IF chars = <<>> THEN <<>>
    ELSE LET a == B64Value(chars[1])
             b == B64Value(chars[2])
         IN  IF chars[3] = "=" THEN <<a * 4 + (b \div 16)>>
             ELSE LET c == B64Value(chars[3])
                  IN  IF chars[4] = "="
                      THEN <<a * 4 + (b \div 16), (b % 16) * 16 + (c \div 4)>>
                      ELSE <<a * 4 + (b \div 16), (b % 16) * 16 + (c \div 4),
                             (c % 4) * 64 + B64Value(chars[4])>>
                           \o B64Decode(SubSeq(chars, 5, Len(chars)))

\* bytes.decode(): the code points of UTF-8 bytes
RECURSIVE Utf8Decode(_)
Utf8Decode(bytes) ==
    IF bytes = <<>> THEN <<>>
    ELSE LET b == bytes[1]
             n == IF b < 128 THEN 1 ELSE IF b < 224 THEN 2 ELSE IF b < 240 THEN 3 ELSE 4
             lead == IF b < 128 THEN b ELSE IF b < 224 THEN b - 192
                     ELSE IF b < 240 THEN b - 224 ELSE b - 240
             Cont[i \in 1..n] == IF i = 1 THEN lead ELSE Cont[i - 1] * 64 + (bytes[i] - 128)
         IN  <<Cont[n]>> \o Utf8Decode(SubSeq(bytes, n + 1, Len(bytes)))

\* C22: for every mapping of keys to string values, the data of the secret
\* manifest has exactly the keys of the mapping, and base64-decoding each
\* value of the manifest gives back the input value.
SecretDataRoundTrips ==
    (vIn.fn = "generate_secret_yaml" /\ vOut # Pending) =>
        /\ DOMAIN vOut.data = DOMAIN vIn.arg
        /\ \A k \in DOMAIN vIn.arg :
              /\ Len(vOut.data[k]) % 4 = 0
              /\ Utf8Decode(B64Decode(vOut.data[k])) = vIn.arg[k]

\* a secret of two keys was generated whose password has a padded encoding
PaddedSecretGenerated ==
    /\ vIn.fn = "generate_secret_yaml"
    /\ vOut # Pending
    /\ DOMAIN vIn.arg = {"password", "user"}
    /\ Len(vIn.arg["password"]) = MaxInputLen
    /\ vOut.data["password"][Len(vOut.data["password"])] = "="

\* C26: when the process was started with --dry-run every apply invocation
\* issued for a request of the interactive loop carries --dry-run=client,
\* and without the option none does.
ApplyCarriesDryRunExactlyWhenAsked ==
    req.entry = "cli" =>
        /\ running.verb = "apply" => running.dry_run = config.dry_run
        /\ \A i \in DOMAIN invocations :
              invocations[i].cmd.verb = "apply" =>
                  invocations[i].cmd.dry_run = config.dry_run

\* the request called no tool: nothing was validated, no parameters were
\* built, and kubectl ran at most for the version probe of show_status
NoOperationRequested ==
    /\ req.data = NoParams
    /\ params = NoParams
    /\ manifest = NoManifest
    /\ \A i \in DOMAIN trace : trace[i] \notin {"Validating", "Generating"}
    /\ running.verb \in {"none", "version"}
    /\ \A i \in DOMAIN invocations : invocations[i].cmd.verb = "version"

TextNeverLeadsToDelete ==
    req.entry \in {"cli", "chat"} =>
        /\ stage = "Resolving" =>
              Resolved(req).route \in ToolKinds \cup {"empty", "help", "loop_help", "status",
                                                      "loop_status", "clarify"}
        /\ req.kind \in ToolKinds \cup {"text", "empty", "help", "loop_help", "status",
                                         "loop_status", "clarify"}
        /\ manifest.kind \in {"none", "Deployment", "Service"}
        /\ running.verb \in {"none", "version", "apply", "get", "scale", "logs"}
        /\ \A i \in DOMAIN invocations :
              invocations[i].cmd.verb \in {"version", "apply", "get", "scale", "logs"}

\* a text that asks for a deletion was answered with the clarification
DeletionTextNotExecuted ==
    /\ req.entry \in {"cli", "chat"}
    /\ Contains(<<"d","e","l","e","t","e">>, LowerStr(req.text))
    /\ warned
    /\ req.kind = "clarify"
    /\ invocations = <<>>
    /\ report # NoReport

\* C27: when broadcast has returned, every connection whose send fails has
\* been removed from active_connections, every other connection is still
\* registered, and a send was attempted exactly once on every connection
\* that was registered at the start.
BroadcastRemovesExactlyTheFailed ==
    (vIn.fn = "broadcast" /\ vOut.returned) =>
        LET registered == Range(vIn.arg.connections)
            active == Range(vOut.active)
        IN  /\ \A c \in vIn.arg.failing : c \notin active
            /\ \A c \in registered \ vIn.arg.failing : c \in active
            /\ \A c \in registered :
                  Cardinality({i \in DOMAIN vOut.sent : vOut.sent[i] = c}) = 1

\* C23: in every interleaving of two apply calls, kubectl reads for each
\* call a temporary file that holds exactly the manifest of that call; the
\* file of a call is neither removed nor overwritten by the other call; and
\* the calls write nothing they share: the configuration is only read and
\* the two calls never have the same file.
ConcurrentAppliesAreIsolated ==
    vIn.fn = "apply_yaml" =>
        /\ config = DefaultConfig
        /\ \A i \in 1..2 :
              LET call == vOut.calls[i]
                  other == vOut.calls[3 - i]
                  Live(c) == c.pc \in {"opened", "written", "returned"}
              IN  /\ Live(call) => call.file \in DOMAIN vOut.disk
                  /\ call.pc \in {"written", "returned"} =>
                        vOut.disk[call.file] = vIn.arg[i]
                  /\ (call.pc \in {"returned", "done"}) => call.read = vIn.arg[i]
                  /\ (Live(call) /\ Live(other)) => call.file # other.file

\* one call has had its manifest read by kubectl while the other call, with
\* a different manifest, has its file written and waiting
AppliesOverlapped ==
    /\ vIn.fn = "apply_yaml"
    /\ vIn.arg[1] # vIn.arg[2]
    /\ vOut.calls[1].pc = "returned"
    /\ vOut.calls[1].read = vIn.arg[1]
    /\ vOut.calls[2].pc = "written"

=============================================================================
